---- MODULE Spec2Model ----
(***************************************************************************)
(* Model of package awssecret (adlio/awssecret): the four exported         *)
(* operations GetStringSecret, GetCredentialSecret, GetAPICredentialSecret *)
(* and GetPostgresDSNSecret, over an environment that decides how default  *)
(* session construction and the GetSecretValue request turn out.           *)
(*                                                                         *)
(* Strings are TLA+ strings, read character by character; encoding/json's  *)
(* Unmarshal is modelled by a scanner over the characters of the text and  *)
(* a field-by-field decoder into the target struct.                        *)
(*                                                                         *)
(* The package is modelled from the revision with all four operations.     *)
(* awssecret.go is an earlier revision with GetPostgresDSNSecret (the same *)
(* lines) and GetStringSecret, which there builds the default session with *)
(* session.New(), a call that returns no error. The secret name is passed  *)
(* on to the request unchanged and is not part of the state.               *)
(***************************************************************************)
EXTENDS Integers, Sequences, FiniteSets, TLC

VARIABLES
    pc,      \* "ready": no operation called yet in this round; "done": it returned
    op,      \* the exported operation that was called ("none" before the call)
    sess,    \* the sess argument: NIL or a supplied session
    env,     \* what the environment will answer (session construction, GetSecretValue)
    ret,     \* the pair the operation returned: [val, err]
    log,     \* the outbound calls and decode attempts of the invocation, in order
    round,   \* 1 for a stored secret, +1 each time a DSN result is stored back
    prev     \* the previous round's secret and result when the secret is a stored-back DSN

vars == <<pc, op, sess, env, ret, log, round, prev>>

(***************************************************************************)
(* Bounds                                                                  *)
(***************************************************************************)
\* Largest number of members of a generated JSON object secret.
MaxMembers == 2
\* Largest number of rounds: round r+1 runs on the DSN that round r returned.
MaxRounds == 2

(***************************************************************************)
(* Strings                                                                 *)
(***************************************************************************)
\* F applied to the value of x, x being evaluated once.
With(x, F(_)) == CHOOSE y \in {F(v) : v \in {x}} : TRUE

\* The character of s at position i (1-based), "" past the end.
Ch(s, i) == IF i >= 1 /\ i <= Len(s) THEN SubSeq(s, i, i) ELSE ""

\* s[i-1 : j] of Go, cut at the end of s.
Slice(s, i, j) == SubSeq(s, i, IF j <= Len(s) THEN j ELSE Len(s))

\* strings.Index(s, sub): 0-based index of the first occurrence, -1 if none.
Index(s, sub) ==
    LET hits == {i \in 1..(Len(s) - Len(sub) + 1) : SubSeq(s, i, i + Len(sub) - 1) = sub}
    IN IF hits = {} THEN -1
       ELSE (CHOOSE i \in hits : \A j \in hits : i <= j) - 1

Upper == "ABCDEFGHIJKLMNOPQRSTUVWXYZ"
Lower == "abcdefghijklmnopqrstuvwxyz"
Digits == {"0", "1", "2", "3", "4", "5", "6", "7", "8", "9"}

\* ASCII case folding of one character, as strings.EqualFold sees it.
FoldCh(c) ==
    LET i == Index(Upper, c)
    IN IF c # "" /\ i >= 0 THEN Ch(Lower, i + 1) ELSE c

RECURSIVE Fold(_)
Fold(s) == IF s = "" THEN "" ELSE FoldCh(Head(s)) \o Fold(Tail(s))

EqualFold(a, b) == Fold(a) = Fold(b)

(***************************************************************************)
(* encoding/json: the scanner                                              *)
(***************************************************************************)
WS == {" ", "\t", "\n", "\r"}

ScanFail == [ok |-> FALSE, next |-> 0, t |-> "invalid", v |-> "", members |-> <<>>]
Scanned(n, t, v) == [ok |-> TRUE, next |-> n, t |-> t, v |-> v, members |-> <<>>]

RECURSIVE SkipWS(_, _)
SkipWS(s, i) == IF Ch(s, i) \in WS THEN SkipWS(s, i + 1) ELSE i

RECURSIVE DigitsEnd(_, _)
DigitsEnd(s, i) == IF Ch(s, i) \in Digits THEN DigitsEnd(s, i + 1) ELSE i

\* The escapes of a JSON string, but for \b and \u, which no text drawn here has.
Unescape(d) ==
    CASE d = "\"" -> "\""
      [] d = "\\" -> "\\"
      [] d = "/"  -> "/"
      [] d = "n"  -> "\n"
      [] d = "t"  -> "\t"
      [] d = "r"  -> "\r"
      [] d = "f"  -> "\f"
      [] OTHER    -> ""

\* The string literal whose opening quote is just before position i.
RECURSIVE ScanString(_, _, _)
ScanString(s, i, acc) ==
    LET c == Ch(s, i)
    IN CASE c = ""   -> ScanFail
         [] c = "\"" -> Scanned(i + 1, "string", acc)
         [] c = "\\" -> IF Unescape(Ch(s, i + 1)) # ""
                        THEN ScanString(s, i + 2, acc \o Unescape(Ch(s, i + 1)))
                        ELSE ScanFail
         [] c \in {"\t", "\n", "\r"} -> ScanFail
         [] OTHER    -> ScanString(s, i + 1, acc \o c)

\* The number literal starting at position i.
ScanNumber(s, i) ==
    LET j0 == IF Ch(s, i) = "-" THEN i + 1 ELSE i
        j1 == IF Ch(s, j0) = "0" THEN j0 + 1 ELSE DigitsEnd(s, j0)
        hasFrac == Ch(s, j1) = "."
        j2 == IF hasFrac THEN DigitsEnd(s, j1 + 1) ELSE j1
        hasExp == Ch(s, j2) \in {"e", "E"}
        e0 == IF Ch(s, j2 + 1) \in {"+", "-"} THEN j2 + 2 ELSE j2 + 1
        j3 == IF hasExp THEN DigitsEnd(s, e0) ELSE j2
    IN IF j1 = j0 \/ (hasFrac /\ j2 = j1 + 1) \/ (hasExp /\ j3 = e0)
       THEN ScanFail
       ELSE Scanned(j3, "number", SubSeq(s, i, j3 - 1))

ScanLiteral(s, i) ==
    CASE Slice(s, i, i + 3) = "true"  -> Scanned(i + 4, "bool", "true")
      [] Slice(s, i, i + 4) = "false" -> Scanned(i + 5, "bool", "false")
      [] Slice(s, i, i + 3) = "null"  -> Scanned(i + 4, "null", "null")
      [] OTHER -> ScanFail

RECURSIVE ScanValue(_, _)
RECURSIVE ScanMembers(_, _, _)
RECURSIVE ScanElements(_, _)

\* The value starting at position i (white space already skipped).
ScanValue(s, i) ==
    LET c == Ch(s, i)
    IN CASE c = "{"  -> With(SkipWS(s, i + 1), LAMBDA j :
                           IF Ch(s, j) = "}"
                           THEN Scanned(j + 1, "object", "")
                           ELSE ScanMembers(s, j, <<>>))
         [] c = "["  -> With(SkipWS(s, i + 1), LAMBDA j :
                           IF Ch(s, j) = "]"
                           THEN Scanned(j + 1, "array", "")
                           ELSE ScanElements(s, j))
         [] c = "\"" -> ScanString(s, i + 1, "")
         [] c = "-" \/ c \in Digits -> ScanNumber(s, i)
         [] c \in {"t", "f", "n"} -> ScanLiteral(s, i)
         [] OTHER -> ScanFail

\* The members of an object from position i (a key) up to its closing brace.
ScanMembers(s, i, acc) ==
    IF Ch(s, i) # "\"" THEN ScanFail
    ELSE With(ScanString(s, i + 1, ""), LAMBDA k :
         IF ~k.ok THEN ScanFail
         ELSE With(SkipWS(s, k.next), LAMBDA j :
              IF Ch(s, j) # ":" THEN ScanFail
              ELSE With(ScanValue(s, SkipWS(s, j + 1)), LAMBDA v :
                   IF ~v.ok THEN ScanFail
                   ELSE With(SkipWS(s, v.next), LAMBDA e :
                        With(Append(acc, [key |-> k.v, t |-> v.t, v |-> v.v]), LAMBDA acc2 :
                        CASE Ch(s, e) = "," ->
                               With(SkipWS(s, e + 1), LAMBDA n : ScanMembers(s, n, acc2))
                          [] Ch(s, e) = "}" ->
                               [ok |-> TRUE, next |-> e + 1, t |-> "object",
                                v |-> "", members |-> acc2]
                          [] OTHER -> ScanFail)))))

\* The elements of an array from position i up to its closing bracket.
ScanElements(s, i) ==
    With(ScanValue(s, i), LAMBDA v :
    IF ~v.ok THEN ScanFail
    ELSE With(SkipWS(s, v.next), LAMBDA e :
         CASE Ch(s, e) = "," -> With(SkipWS(s, e + 1), LAMBDA n : ScanElements(s, n))
           [] Ch(s, e) = "]" -> Scanned(e + 1, "array", "")
           [] OTHER -> ScanFail))

\* The whole text as one JSON value: scanned, and nothing but white space after it.
ScanText(s) ==
    With(ScanValue(s, SkipWS(s, 1)), LAMBDA top :
    IF top.ok /\ SkipWS(s, top.next) = Len(s) + 1 THEN top ELSE ScanFail)

(***************************************************************************)
(* Errors: an error is the sequence of its layers, outermost first; nil    *)
(* is the empty sequence. A layer records the package that made it.        *)
(***************************************************************************)
nil == <<>>

\* An error value made outside this package (aws-sdk-go, encoding/json).
External(pkg, msg) == <<[origin |-> pkg, msg |-> msg]>>

\* errors.New(msg) of github.com/pkg/errors, called in this package.
New(msg) == <<[origin |-> "awssecret", msg |-> msg]>>

\* errors.Wrapf(err, msg): nil stays nil, otherwise a context layer on top of err.
Wrapf(err, msg) == IF err = nil THEN nil ELSE New(msg) \o err

SyntaxError == External("encoding/json", "SyntaxError")
UnmarshalTypeError == External("encoding/json", "UnmarshalTypeError")
SessionError == External("aws-sdk-go/session", "NewSessionWithOptions failed")
AWSError(code) == External("aws-sdk-go/awserr", code)
OtherError == External("aws-sdk-go", "request failed")

(***************************************************************************)
(* The structs and their json tags                                         *)
(***************************************************************************)
Field(name, go, kind) == [name |-> name, go |-> go, kind |-> kind]

APICredentialFields == <<
    Field("baseURL", "BaseURL", "string"),
    Field("key", "APIKey", "string"),
    Field("secret", "APISecret", "string") >>

CredentialFields == <<
    Field("host", "Host", "string"),
    Field("port", "Port", "int"),
    Field("key", "Key", "string"),
    Field("username", "Username", "string"),
    Field("password", "Password", "string"),
    Field("dbname", "DBName", "string") >>

dsnFields == <<
    Field("engine", "Engine", "string"),
    Field("host", "Host", "string"),
    Field("dbname", "DBName", "string"),
    Field("username", "Username", "string"),
    Field("password", "Password", "string"),
    Field("port", "Port", "int"),
    Field("search_path", "SearchPath", "string"),
    Field("dbInstanceIdentifier", "DBInstanceIdentifier", "string") >>

\* The zero value of a struct: "" for a string field, 0 for an int field.
Zero(fields) ==
    [g \in {fields[i].go : i \in DOMAIN fields} |->
        LET i == CHOOSE j \in DOMAIN fields : fields[j].go = g
        IN IF fields[i].kind = "int" THEN 0 ELSE ""]

(***************************************************************************)
(* encoding/json: Unmarshal into a struct                                  *)
(***************************************************************************)
\* The field a key decodes into: an exact match of the tag, else the first
\* match under case folding; 0 when the key is unknown.
FieldFor(fields, key) ==
    LET exact == {i \in DOMAIN fields : fields[i].name = key}
        fold == {i \in DOMAIN fields : EqualFold(fields[i].name, key)}
        first(S) == CHOOSE i \in S : \A j \in S : i <= j
    IN IF exact # {} THEN first(exact)
       ELSE IF fold # {} THEN first(fold) ELSE 0

\* A number literal that strconv.ParseInt accepts: an optional sign and digits.
IsIntLiteral(v) == Index(v, ".") < 0 /\ Index(v, "e") < 0 /\ Index(v, "E") < 0

DigitVal(c) == Index("0123456789", c)

RECURSIVE AtoiDigits(_, _)
AtoiDigits(v, acc) ==
    IF v = "" THEN acc ELSE AtoiDigits(Tail(v), 10 * acc + DigitVal(Head(v)))

Atoi(v) == IF Ch(v, 1) = "-" THEN 0 - AtoiDigits(Tail(v), 0) ELSE AtoiDigits(v, 0)

\* DecodeMember as it would be if an unknown key were an error
\* (Decoder.DisallowUnknownFields).
DecodeMemberStrict(fields, rec, m) ==
    LET f == FieldFor(fields, m.key)
    IN CASE f # 0 /\ m.t = "null" -> [rec |-> rec, err |-> nil]
         [] f # 0 /\ m.t = "string" /\ fields[f].kind = "string" ->
                [rec |-> [rec EXCEPT ![fields[f].go] = m.v], err |-> nil]
         [] f # 0 /\ m.t = "number" /\ fields[f].kind = "int" /\ IsIntLiteral(m.v) ->
                [rec |-> [rec EXCEPT ![fields[f].go] = Atoi(m.v)], err |-> nil]
         [] OTHER -> [rec |-> rec, err |-> UnmarshalTypeError]

\* One member of the object decoded into the struct: [rec, err]. A null and an
\* unknown key change nothing; a value of the wrong type leaves the field as
\* it is and is reported, and decoding goes on.
DecodeMember(fields, rec, m) ==
    LET f == FieldFor(fields, m.key)
    IN CASE f = 0 -> [rec |-> rec, err |-> nil]
         [] f # 0 /\ m.t = "null" -> [rec |-> rec, err |-> nil]
         [] f # 0 /\ m.t = "string" /\ fields[f].kind = "string" ->
                [rec |-> [rec EXCEPT ![fields[f].go] = m.v], err |-> nil]
         [] f # 0 /\ m.t = "number" /\ fields[f].kind = "int" /\ IsIntLiteral(m.v) ->
                [rec |-> [rec EXCEPT ![fields[f].go] = Atoi(m.v)], err |-> nil]
         [] OTHER -> [rec |-> rec, err |-> UnmarshalTypeError]

\* The members from the i-th on, in the order of the text; the first error is kept.
RECURSIVE DecodeMembers(_, _, _, _, _)
DecodeMembers(fields, members, i, rec, err) ==
    IF i > Len(members) THEN [rec |-> rec, err |-> err]
    ELSE With(DecodeMember(fields, rec, members[i]), LAMBDA r :
         With(IF err = nil THEN r.err ELSE err, LAMBDA first :
         DecodeMembers(fields, members, i + 1, r.rec, first)))

\* json.Unmarshal([]byte(text), &rec): [rec, err]. The syntax of the whole
\* text is checked before anything is stored.
Unmarshal(text, fields, rec) ==
    With(ScanText(text), LAMBDA top :
    CASE ~top.ok -> [rec |-> rec, err |-> SyntaxError]
      [] top.ok /\ top.t = "null" -> [rec |-> rec, err |-> nil]
      [] top.ok /\ top.t = "object" -> DecodeMembers(fields, top.members, 1, rec, nil)
      [] OTHER -> [rec |-> rec, err |-> UnmarshalTypeError])

(***************************************************************************)
(* The package                                                             *)
(***************************************************************************)
NIL == "nil"
Sessions == {NIL, "supplied"}

EvNewSession == "session.NewSessionWithOptions"
EvGetSecretValue == "GetSecretValue(AWSCURRENT)"
EvUnmarshal == "json.Unmarshal"

\* NewSession as it would be if the construction error were dropped.
NewSessionTrusting(s, e) ==
    IF s = NIL
    THEN [sess |-> "default", err |-> nil, log |-> <<EvNewSession>>]
    ELSE [sess |-> s, err |-> nil, log |-> <<>>]

\* The nil check on sess and session.NewSessionWithOptions: [sess, err, log].
NewSession(s, e) ==
    IF s = NIL
    THEN IF e.newSession = "error"
         THEN [sess |-> NIL, err |-> SessionError, log |-> <<EvNewSession>>]
         ELSE [sess |-> "default", err |-> nil, log |-> <<EvNewSession>>]
    ELSE [sess |-> s, err |-> nil, log |-> <<>>]

\* GetSecretValue as it would be if a failed request were issued once more.
GetSecretValueRetrying(e) ==
    CASE e.result = "awserr" ->
           [result |-> [SecretString |-> NIL], err |-> AWSError(e.code),
            log |-> <<EvGetSecretValue, EvGetSecretValue>>]
      [] e.result = "error" ->
           [result |-> [SecretString |-> NIL], err |-> OtherError,
            log |-> <<EvGetSecretValue, EvGetSecretValue>>]
      [] e.result = "string" ->
           [result |-> [SecretString |-> <<e.secret.text>>], err |-> nil,
            log |-> <<EvGetSecretValue>>]
      [] OTHER ->
           [result |-> [SecretString |-> NIL], err |-> nil, log |-> <<EvGetSecretValue>>]

\* svc.GetSecretValue(input), input asking for stage AWSCURRENT: [result, err, log].
\* result.SecretString is NIL when the secret is not a string.
GetSecretValue(e) ==
    CASE e.result = "awserr" ->
           [result |-> [SecretString |-> NIL], err |-> AWSError(e.code),
            log |-> <<EvGetSecretValue>>]
      [] e.result = "error" ->
           [result |-> [SecretString |-> NIL], err |-> OtherError,
            log |-> <<EvGetSecretValue>>]
      [] e.result = "string" ->
           [result |-> [SecretString |-> <<e.secret.text>>], err |-> nil,
            log |-> <<EvGetSecretValue>>]
      [] OTHER ->
           [result |-> [SecretString |-> NIL], err |-> nil, log |-> <<EvGetSecretValue>>]

\* The error GetStringSecret returns for a failed request: with the code of an
\* awserr.Error, with a fixed text for any other error.
RequestError(err) ==
    IF Head(err).origin = "aws-sdk-go/awserr"
    THEN Wrapf(err, "Failed to get secret from AWS Secrets Manager: " \o Head(err).msg)
    ELSE Wrapf(err, "Fasiled to get secret from AWS Secrets Manager: Unknown error description")

\* SecretString as it would be if a binary secret were read as the empty string.
SecretStringLenient(result) ==
    IF result.SecretString # NIL
    THEN [secret |-> result.SecretString[1], err |-> nil]
    ELSE [secret |-> "", err |-> nil]

\* What GetStringSecret returns for a successful request: [secret, err].
SecretString(result) ==
    IF result.SecretString # NIL
    THEN [secret |-> result.SecretString[1], err |-> nil]
    ELSE [secret |-> "", err |-> New("Secret is not a string")]

\* GetStringSecret(sess, secretName): [secret, err, log], log being the calls
\* it made, in order. e is what the environment answers.
GetStringSecret(s, e) ==
    LET n == NewSession(s, e)
        q == GetSecretValue(e)
        r == SecretString(q.result)
    IN IF n.err # nil
       THEN [secret |-> "", err |-> n.err, log |-> n.log]
       ELSE IF q.err # nil
       THEN [secret |-> "", err |-> RequestError(q.err), log |-> n.log \o q.log]
       ELSE [secret |-> r.secret, err |-> r.err, log |-> n.log \o q.log]

\* GetAPICredentialSecret(sess, secretName): [val, err, log].
GetAPICredentialSecret(s, e) ==
    LET cred == Zero(APICredentialFields)
        g == GetStringSecret(s, e)
        u == Unmarshal(g.secret, APICredentialFields, cred)
    IN IF g.err # nil
       THEN [val |-> cred, log |-> g.log,
             err |-> Wrapf(g.err, "Couldn't build credential. Failed to retrieve secret.")]
       ELSE IF u.err # nil
       THEN [val |-> u.rec, log |-> Append(g.log, EvUnmarshal),
             err |-> Wrapf(u.err, "Couldn't build credential. Failed to decode JSON.")]
       ELSE [val |-> u.rec, log |-> Append(g.log, EvUnmarshal), err |-> nil]

\* GetCredentialSecret as it would be without the check of the fetch error.
GetCredentialSecretDecodingAnyway(s, e) ==
    LET cred == Zero(CredentialFields)
        g == GetStringSecret(s, e)
        u == Unmarshal(g.secret, CredentialFields, cred)
    IN IF u.err # nil
       THEN [val |-> u.rec, log |-> Append(g.log, EvUnmarshal),
             err |-> Wrapf(u.err, "Couldn't build credential. Failed to decode JSON.")]
       ELSE [val |-> u.rec, log |-> Append(g.log, EvUnmarshal), err |-> nil]

\* GetCredentialSecret(sess, secretName): [val, err, log].
GetCredentialSecret(s, e) ==
    LET cred == Zero(CredentialFields)
        g == GetStringSecret(s, e)
        u == Unmarshal(g.secret, CredentialFields, cred)
    IN IF g.err # nil
       THEN [val |-> cred, log |-> g.log,
             err |-> Wrapf(g.err, "Couldn't build credential. Failed to retrieve secret.")]
       ELSE IF u.err # nil
       THEN [val |-> u.rec, log |-> Append(g.log, EvUnmarshal),
             err |-> Wrapf(u.err, "Couldn't build credential. Failed to decode JSON.")]
       ELSE [val |-> u.rec, log |-> Append(g.log, EvUnmarshal), err |-> nil]

\* LooksLikeDSN as it would be if host= had to open the string.
LooksLikeDSNAtStart(str) == Index(str, "host=") = 0 /\ Index(str, "dbname=") >= 0

\* The test "the string already looks like a DSN".
LooksLikeDSN(str) == Index(str, "host=") >= 0 /\ Index(str, "dbname=") >= 0

\* BuildDSN as it would be with the user token written last.
BuildDSNUserLast(d) ==
    LET s1 == IF d.Host # "" THEN "host=" \o d.Host \o " " ELSE ""
        s2 == IF d.DBName # "" THEN s1 \o "dbname=" \o d.DBName \o " " ELSE s1
        s3 == IF d.Password # "" THEN s2 \o "password=" \o d.Password \o " " ELSE s2
        s4 == IF d.SearchPath # "" THEN s3 \o "search_path=" \o d.SearchPath \o " " ELSE s3
        s5 == IF d.Username # "" THEN s4 \o "user=" \o d.Username \o " " ELSE s4
    IN s5

\* BuildDSN as it would be with the database name under the key database=.
BuildDSNDatabaseKey(d) ==
    LET s1 == IF d.Host # "" THEN "host=" \o d.Host \o " " ELSE ""
        s2 == IF d.DBName # "" THEN s1 \o "database=" \o d.DBName \o " " ELSE s1
        s3 == IF d.Username # "" THEN s2 \o "user=" \o d.Username \o " " ELSE s2
        s4 == IF d.Password # "" THEN s3 \o "password=" \o d.Password \o " " ELSE s3
        s5 == IF d.SearchPath # "" THEN s4 \o "search_path=" \o d.SearchPath \o " " ELSE s4
    IN s5

\* The strings.Builder part of GetPostgresDSNSecret.
BuildDSN(d) ==
    LET s1 == IF d.Host # "" THEN "host=" \o d.Host \o " " ELSE ""
        s2 == IF d.DBName # "" THEN s1 \o "dbname=" \o d.DBName \o " " ELSE s1
        s3 == IF d.Username # "" THEN s2 \o "user=" \o d.Username \o " " ELSE s2
        s4 == IF d.Password # "" THEN s3 \o "password=" \o d.Password \o " " ELSE s3
        s5 == IF d.SearchPath # "" THEN s4 \o "search_path=" \o d.SearchPath \o " " ELSE s4
    IN s5

\* FormatDSN as it would be if a failed parse returned the empty string.
FormatDSNDroppingRaw(str) ==
    LET u == Unmarshal(str, dsnFields, Zero(dsnFields))
    IN IF LooksLikeDSN(str)
       THEN [val |-> str, err |-> nil, log |-> <<>>]
       ELSE IF u.err # nil
       THEN [val |-> "", err |-> u.err, log |-> <<EvUnmarshal>>]
       ELSE [val |-> BuildDSN(u.rec), err |-> nil, log |-> <<EvUnmarshal>>]

\* GetPostgresDSNSecret after the fetch succeeded with str: [val, err, log].
FormatDSN(str) ==
    LET u == Unmarshal(str, dsnFields, Zero(dsnFields))
    IN IF LooksLikeDSN(str)
       THEN [val |-> str, err |-> nil, log |-> <<>>]
       ELSE IF u.err # nil
       THEN [val |-> str, err |-> u.err, log |-> <<EvUnmarshal>>]
       ELSE [val |-> BuildDSN(u.rec), err |-> nil, log |-> <<EvUnmarshal>>]

\* GetPostgresDSNSecret(sess, secretName): [val, err, log].
GetPostgresDSNSecret(s, e) ==
    LET g == GetStringSecret(s, e)
        f == FormatDSN(g.secret)
    IN IF g.err # nil
       THEN [val |-> "", log |-> g.log,
             err |-> Wrapf(g.err, "Couldn't build DSN. Failed to retrieve secret")]
       ELSE [val |-> f.val, err |-> f.err, log |-> g.log \o f.log]

(***************************************************************************)
(* The environment: the secrets the backend may hold                       *)
(***************************************************************************)
\* A member of a JSON object as it was written: key, type, and the value
\* (the content of a string; the literal text of anything else).
Member(k, t, v) == [key |-> k, t |-> t, v |-> v]
Str(v) == [t |-> "string", v |-> v]
Num(v) == [t |-> "number", v |-> v]

\* What a generated object may hold under each key. The keys are written in
\* this order, which is not the order GetPostgresDSNSecret emits them in.
Choices == <<
    [key |-> "search_path", alts |-> {Str("public")}],
    [key |-> "password",    alts |-> {Str("p"), Str("dbname=y")}],
    [key |-> "username",    alts |-> {Str("u"), Str("host=x")}],
    [key |-> "port",        alts |-> {Num("5432"), Str("5432")}],
    [key |-> "dbname",      alts |-> {Str("app"), Str("")}],
    [key |-> "host",        alts |-> {Str("db1"), Str(""), Num("5")}],
    [key |-> "engine",      alts |-> {Str("postgres")}],
    [key |-> "dbInstanceIdentifier", alts |-> {Str("id1")}],
    [key |-> "key",         alts |-> {Str("k")}],
    [key |-> "baseURL",     alts |-> {Str("https://x")}],
    [key |-> "secret",      alts |-> {Str("s")}] >>

\* The member lists over the choices from the i-th on, of at most n members.
RECURSIVE Gen(_, _)
Gen(i, n) ==
    IF i > Len(Choices) \/ n = 0 THEN {<<>>}
    ELSE Gen(i + 1, n) \cup
         {<<Member(Choices[i].key, a.t, a.v)>> \o rest :
              a \in Choices[i].alts, rest \in Gen(i + 1, n - 1)}

RECURSIVE Escape(_)
Escape(s) ==
    IF s = "" THEN ""
    ELSE (IF Head(s) \in {"\"", "\\"} THEN "\\" \o Head(s) ELSE Head(s)) \o Escape(Tail(s))

Quote(s) == "\"" \o Escape(s) \o "\""

MemberText(m) == Quote(m.key) \o ":" \o (IF m.t = "string" THEN Quote(m.v) ELSE m.v)

RECURSIVE Join(_, _)
Join(ms, i) ==
    IF i > Len(ms) THEN ""
    ELSE MemberText(ms[i]) \o (IF i < Len(ms) THEN "," ELSE "") \o Join(ms, i + 1)

\* The JSON text of an object with these members.
ObjectText(ms) == "{" \o Join(ms, 1) \o "}"

\* A secret: its text, and how it was written (whether the text is JSON, what
\* its top-level value is, and the members of a top-level object).
Secret(text, syntax, top, ms) ==
    [text |-> text, syntax |-> syntax, top |-> top, members |-> ms]
Object(ms) == Secret(ObjectText(ms), "valid", "object", ms)
Written(text, ms) == Secret(text, "valid", "object", ms)
Malformed(text) == Secret(text, "invalid", "none", <<>>)
NoSecret == Secret("", "none", "none", <<>>)

FullExample == <<Member("host", "string", "db1"), Member("dbname", "string", "app"),
                 Member("username", "string", "u"), Member("password", "string", "p"),
                 Member("search_path", "string", "public")>>

Catalog == {
    Malformed(""),
    Malformed("not json"),
    Malformed("host=db1 dbname=app user=u "),
    Malformed("dbname=app sslmode=disable host=db1"),
    Malformed("host=db1 port=5432"),
    Malformed("{\"host\":\"db1\""),
    Malformed("{\"host\":\"db1\",}"),
    Malformed("{\"host\":\"db1\"} x"),
    Malformed("{\"password\":\"host=\" dbname="),
    Secret("null", "valid", "null", <<>>),
    Secret("42", "valid", "other", <<>>),
    Secret("\"app\"", "valid", "other", <<>>),
    Secret("[\"host=\",\"dbname=\"]", "valid", "other", <<>>),
    Secret("[{\"host\":\"db1\"}]", "valid", "other", <<>>),
    Object(FullExample),
    Object(FullExample \o <<Member("port", "number", "5432"), Member("engine", "string", "postgres"),
                            Member("dbInstanceIdentifier", "string", "id1")>>),
    Object(<<Member("host", "string", "db1"), Member("dbname", "string", "app"),
             Member("port", "string", "5432")>>),
    Object(<<Member("port", "number", "1.5"), Member("host", "string", "db1")>>),
    Object(<<Member("host", "null", "null"), Member("port", "null", "null"),
             Member("dbname", "string", "app")>>),
    Object(<<Member("password", "string", "p\"q\\r"), Member("baseURL", "string", "u")>>),
    Object(<<Member("extra", "raw", "{\"a\":[1,true,null,\"x\"]}"),
             Member("username", "raw", "false"), Member("key", "string", "k")>>),
    Object(<<Member("host", "string", "db1"), Member("host", "string", "db2")>>),
    Written(" { \"HOST\" : \"db1\" ,\n\t\"Port\" : 5432 , \"SECRET\":\"s\" } ",
            <<Member("HOST", "string", "db1"), Member("Port", "number", "5432"),
              Member("SECRET", "string", "s")>>) }

Secrets == Catalog \cup {Object(ms) : ms \in Gen(1, MaxMembers)}

Codes == {"ResourceNotFoundException", "DecryptionFailureException"}

\* What the environment answers: whether building a default session fails,
\* and what GetSecretValue gives (an awserr.Error with a code, another error,
\* a result without SecretString, a result with SecretString).
Answer(n, r, c, sec) == [newSession |-> n, result |-> r, code |-> c, secret |-> sec]
Envs ==
    {Answer(n, "awserr", c, NoSecret) : n \in {"ok", "error"}, c \in Codes}
    \cup {Answer(n, r, "", NoSecret) : n \in {"ok", "error"}, r \in {"error", "binary"}}
    \cup {Answer(n, "string", "", sec) : n \in {"ok", "error"}, sec \in Secrets}

NoRet == [val |-> "", err |-> nil]
NoPrev == [secret |-> NoSecret, log |-> <<>>]

(***************************************************************************)
(* The state machine                                                       *)
(***************************************************************************)
Init ==
    /\ pc = "ready"
    /\ op = "none"
    /\ sess \in Sessions
    /\ env \in Envs
    /\ ret = NoRet
    /\ log = <<>>
    /\ round = 1
    /\ prev = NoPrev

\* One action per exported operation: the call and its return. The calls the
\* operation made are in log', what it returned in ret'.
CallGetStringSecret ==
    /\ pc = "ready"
    /\ \E r \in {GetStringSecret(sess, env)} :
           /\ ret' = [val |-> r.secret, err |-> r.err]
           /\ log' = r.log
    /\ op' = "GetStringSecret"
    /\ pc' = "done"
    /\ UNCHANGED <<sess, env, round, prev>>

CallGetCredentialSecret ==
    /\ pc = "ready"
    /\ \E r \in {GetCredentialSecret(sess, env)} :
           /\ ret' = [val |-> r.val, err |-> r.err]
           /\ log' = r.log
    /\ op' = "GetCredentialSecret"
    /\ pc' = "done"
    /\ UNCHANGED <<sess, env, round, prev>>

CallGetAPICredentialSecret ==
    /\ pc = "ready"
    /\ \E r \in {GetAPICredentialSecret(sess, env)} :
           /\ ret' = [val |-> r.val, err |-> r.err]
           /\ log' = r.log
    /\ op' = "GetAPICredentialSecret"
    /\ pc' = "done"
    /\ UNCHANGED <<sess, env, round, prev>>

CallGetPostgresDSNSecret ==
    /\ pc = "ready"
    /\ \E r \in {GetPostgresDSNSecret(sess, env)} :
           /\ ret' = [val |-> r.val, err |-> r.err]
           /\ log' = r.log
    /\ op' = "GetPostgresDSNSecret"
    /\ pc' = "done"
    /\ UNCHANGED <<sess, env, round, prev>>

\* The caller stores the DSN it got as the value of a secret, and the next
\* round runs on that secret.
StoreBack ==
    /\ pc = "done"
    /\ op = "GetPostgresDSNSecret"
    /\ ret.err = nil
    /\ ret.val # ""
    /\ round < MaxRounds
    /\ pc' = "ready"
    /\ op' = "none"
    /\ env' = [env EXCEPT !.secret = Secret(ret.val, "unknown", "unknown", <<>>)]
    /\ prev' = [secret |-> env.secret, log |-> log]
    /\ ret' = NoRet
    /\ log' = <<>>
    /\ round' = round + 1
    /\ UNCHANGED sess

Next ==
    \/ CallGetStringSecret
    \/ CallGetCredentialSecret
    \/ CallGetAPICredentialSecret
    \/ CallGetPostgresDSNSecret
    \/ StoreBack

Spec == Init /\ [][Next]_vars

(***************************************************************************)
(* What the properties are stated in                                       *)
(***************************************************************************)
Done == pc = "done"
OpString == "GetStringSecret"
OpCredential == "GetCredentialSecret"
OpAPICredential == "GetAPICredentialSecret"
OpDSN == "GetPostgresDSNSecret"
Decoders == {OpCredential, OpAPICredential, OpDSN}

\* The environment lets the fetch succeed: a session exists and the backend
\* gives a string.
SessionFails == sess = NIL /\ env.newSession = "error"
Fetched == ~SessionFails /\ env.result = "string"
Text == env.secret.text

Has(s, sub) == \E i \in 1..Len(s) : Slice(s, i, i + Len(sub) - 1) = sub
HasBoth(s) == Has(s, "host=") /\ Has(s, "dbname=")

Count(l, ev) == Cardinality({i \in DOMAIN l : l[i] = ev})
Last(l) == l[Len(l)]

ZeroCredential ==
    [Host |-> "", Port |-> 0, Key |-> "", Username |-> "", Password |-> "", DBName |-> ""]
ZeroAPICredential == [BaseURL |-> "", APIKey |-> "", APISecret |-> ""]

\* The keys of each record and their types, lower-cased (section 3 of the design note).
StringKeys(o) ==
    CASE o = OpCredential -> {"host", "key", "username", "password", "dbname"}
      [] o = OpAPICredential -> {"baseurl", "key", "secret"}
      [] OTHER -> {"engine", "host", "dbname", "username", "password", "search_path",
                   "dbinstanceidentifier"}
IntKeys(o) == IF o = OpAPICredential THEN {} ELSE {"port"}

PlainInteger(v) == \A i \in 1..Len(v) : Ch(v, i) \in Digits \cup {"-"}

\* Every member written under a key of the record holds a value of the key's
\* type, or null.
Compatible(o, ms) ==
    \A i \in DOMAIN ms :
        LET k == Fold(ms[i].key)
        IN \/ ms[i].t = "null"
           \/ k \notin StringKeys(o) \cup IntKeys(o)
           \/ k \in StringKeys(o) /\ ms[i].t = "string"
           \/ k \in IntKeys(o) /\ ms[i].t = "number" /\ PlainInteger(ms[i].v)

\* The string written last under a key, "" when none was.
Want(ms, key) ==
    LET I == {i \in DOMAIN ms : Fold(ms[i].key) = key /\ ms[i].t = "string"}
    IN IF I = {} THEN "" ELSE ms[CHOOSE i \in I : \A j \in I : j <= i].v

Token(k, v) == IF v = "" THEN "" ELSE k \o "=" \o v \o " "

ExpectedDSN(ms) ==
    Token("host", Want(ms, "host")) \o Token("dbname", Want(ms, "dbname"))
    \o Token("user", Want(ms, "username")) \o Token("password", Want(ms, "password"))
    \o Token("search_path", Want(ms, "search_path"))

\* A DSN operation that got a JSON object and did not pass it through.
ConvertsObject ==
    Done /\ op = OpDSN /\ Fetched /\ env.secret.top = "object" /\ ~HasBoth(Text)

(***************************************************************************)
(* C1                                                                      *)
(***************************************************************************)
\* C1: whenever the fetched string contains both host= and dbname= anywhere,
\* GetPostgresDSNSecret returns that string unmodified with a nil error and
\* makes no JSON parse attempt.
C1_PassThrough ==
    (Done /\ op = OpDSN /\ Fetched /\ HasBoth(Text))
        => ret.val = Text /\ ret.err = nil /\ Count(log, EvUnmarshal) = 0

\* A JSON object that merely contains the two substrings was passed through.
C1_Witness ==
    /\ Done /\ op = OpDSN /\ Fetched /\ HasBoth(Text)
    /\ env.secret.top = "object" /\ round = 1
    /\ ret.val = Text

(***************************************************************************)
(* C2                                                                      *)
(***************************************************************************)
\* C2 as stated: for every secret that is a JSON object and is not passed
\* through, GetPostgresDSNSecret returns exactly the tokens of host, dbname,
\* user, password, search_path, in that order, for the non-empty values, and
\* nothing for engine, port and dbInstanceIdentifier whatever their values.
C2_AsStated ==
    ConvertsObject => ret.val = ExpectedDSN(env.secret.members) /\ ret.err = nil

\* C2 amended: the same, for the objects in which every known key holds a
\* value of its field's type or null (port a number, the others strings).
C2_TokensInFixedOrder ==
    (ConvertsObject /\ Compatible(OpDSN, env.secret.members))
        => ret.val = ExpectedDSN(env.secret.members) /\ ret.err = nil

\* The object with all eight keys gave the five tokens.
C2_Witness ==
    /\ ConvertsObject
    /\ Len(env.secret.members) = 8
    /\ ret.val = "host=db1 dbname=app user=u password=p search_path=public "

(***************************************************************************)
(* C3                                                                      *)
(***************************************************************************)
\* C3: whenever the fetch fails, each of the three decoders returns a non-nil
\* error and never attempts JSON parsing; the credential records are
\* zero-valued and the DSN operation returns the empty string.
C3_FetchFailureShortCircuits ==
    (Done /\ op \in Decoders /\ ~Fetched)
        => /\ ret.err # nil
           /\ Count(log, EvUnmarshal) = 0
           /\ op = OpCredential => ret.val = ZeroCredential
           /\ op = OpAPICredential => ret.val = ZeroAPICredential
           /\ op = OpDSN => ret.val = ""

\* GetCredentialSecret returned after the backend refused the request.
C3_Witness ==
    /\ Done /\ op = OpCredential /\ ~SessionFails /\ env.result = "awserr"
    /\ ret.err # nil /\ ret.val = ZeroCredential

(***************************************************************************)
(* C4                                                                      *)
(***************************************************************************)
\* C4: when the request succeeds but the secret has no string value,
\* GetStringSecret returns the empty string with the error "Secret is not a
\* string", and no decoder reaches a decode attempt.
C4_BinaryIsAnError ==
    (Done /\ ~SessionFails /\ env.result = "binary")
        => /\ ret.err # nil
           /\ Last(ret.err) = [origin |-> "awssecret", msg |-> "Secret is not a string"]
           /\ op = OpString => ret.val = "" /\ Len(ret.err) = 1
           /\ Count(log, EvUnmarshal) = 0

\* GetAPICredentialSecret returned for a binary secret, after one request.
C4_Witness ==
    /\ Done /\ op = OpAPICredential /\ ~SessionFails /\ env.result = "binary"
    /\ Count(log, EvGetSecretValue) = 1 /\ ret.err # nil

(***************************************************************************)
(* C5                                                                      *)
(***************************************************************************)
\* The raw fetched string is in what the operation returned: it is the
\* returned string, a string field of the returned record, or the message
\* of a layer of the error.
RawReturned ==
    \/ op = OpDSN /\ ret.val = Text
    \/ op = OpCredential
         /\ \E g \in {"Host", "Key", "Username", "Password", "DBName"} : ret.val[g] = Text
    \/ op = OpAPICredential
         /\ \E g \in {"BaseURL", "APIKey", "APISecret"} : ret.val[g] = Text
    \/ \E i \in DOMAIN ret.err : ret.err[i].msg = Text

IsSyntaxError(err) ==
    err # nil /\ Last(err) = [origin |-> "encoding/json", msg |-> "SyntaxError"]

\* C5 as stated: for every fetched string that is not valid JSON, each of the
\* three decoders returns a non-nil decode error and the raw string is in
\* what is returned.
C5_AsStated ==
    (Done /\ op \in Decoders /\ Fetched /\ env.secret.syntax = "invalid")
        => IsSyntaxError(ret.err) /\ RawReturned

\* C5 amended: for every fetched string that is not valid JSON, the two
\* credential decoders return the JSON error under a "Failed to decode JSON"
\* layer, with the zero-valued record and not the raw string;
\* GetPostgresDSNSecret returns the JSON error with the raw string, unless the
\* string contains host= and dbname= (then it is returned with a nil error).
C5_MalformedIsADecodeError ==
    (Done /\ op \in Decoders /\ Fetched /\ env.secret.syntax = "invalid")
        => /\ op = OpCredential => IsSyntaxError(ret.err) /\ ret.val = ZeroCredential
           /\ op = OpAPICredential => IsSyntaxError(ret.err) /\ ret.val = ZeroAPICredential
           /\ op # OpDSN =>
                  /\ Len(ret.err) = 2
                  /\ ret.err[1] = [origin |-> "awssecret",
                                   msg |-> "Couldn't build credential. Failed to decode JSON."]
           /\ (op = OpDSN /\ ~HasBoth(Text)) => IsSyntaxError(ret.err) /\ ret.val = Text
           /\ (op = OpDSN /\ HasBoth(Text)) => ret.err = nil /\ ret.val = Text

\* GetPostgresDSNSecret returned a malformed, non-empty string with the error.
C5_Witness ==
    /\ Done /\ op = OpDSN /\ Fetched /\ env.secret.syntax = "invalid"
    /\ Text # "" /\ ~HasBoth(Text)
    /\ ret.val = Text /\ IsSyntaxError(ret.err)

(***************************************************************************)
(* C6                                                                      *)
(***************************************************************************)
\* C6: every error an exported operation returns has a context layer of this
\* package on top; none is the underlying error as it came.
C6_EveryErrorWrapped ==
    (Done /\ ret.err # nil) => Head(ret.err).origin = "awssecret"

(***************************************************************************)
(* C7                                                                      *)
(***************************************************************************)
\* C7: an invocation makes at most one GetSecretValue request, on every path
\* (exactly one once a session exists), and does not issue it again.
C7_AtMostOneRequest ==
    /\ Count(log, EvGetSecretValue) <= 1
    /\ (Done /\ ~SessionFails) => Count(log, EvGetSecretValue) = 1

\* An operation returned the failure of its single request.
C7_Witness ==
    /\ Done /\ ~SessionFails /\ env.result \in {"awserr", "error"}
    /\ Count(log, EvGetSecretValue) = 1 /\ ret.err # nil

(***************************************************************************)
(* C8                                                                      *)
(***************************************************************************)
\* A decoder that got valid JSON and did not pass it through.
DecodesValid ==
    /\ Done /\ op \in Decoders /\ Fetched /\ env.secret.syntax = "valid"
    /\ op = OpDSN => ~HasBoth(Text)

\* C8 as stated: for every fetched string that is valid JSON, the decoders
\* return a nil error, whatever fields are present and whatever the types of
\* the values.
C8_AsStated == DecodesValid => ret.err = nil

\* C8 amended: for every fetched string that is valid JSON, the decoders
\* return a nil error exactly when the text is null or an object in which
\* every known key holds a value of its field's type or null; absent fields
\* and unknown keys never cause a failure.
C8_FailsOnlyOnTypes ==
    DecodesValid
        => (ret.err = nil <=>
               \/ env.secret.top = "null"
               \/ env.secret.top = "object" /\ Compatible(op, env.secret.members))

\* GetCredentialSecret decoded an object with none of its fields and returned nil.
C8_Witness ==
    /\ DecodesValid /\ op = OpCredential /\ env.secret.top = "object"
    /\ \A i \in DOMAIN env.secret.members :
           Fold(env.secret.members[i].key) \notin StringKeys(op) \cup IntKeys(op)
    /\ Len(env.secret.members) > 0
    /\ ret.err = nil /\ ret.val = ZeroCredential

(***************************************************************************)
(* C9                                                                      *)
(***************************************************************************)
\* C9: with no session supplied a default one is constructed, once, before
\* any request; if the construction fails the operation returns an error (and
\* GetStringSecret the empty value) without a request; with a session
\* supplied none is constructed.
C9_DefaultSession ==
    Done => /\ sess = NIL => Count(log, EvNewSession) = 1 /\ log[1] = EvNewSession
            /\ SessionFails => /\ ret.err # nil
                               /\ Count(log, EvGetSecretValue) = 0
                               /\ op = OpString => ret.val = ""
            /\ sess # NIL => Count(log, EvNewSession) = 0

\* GetStringSecret returned the failure of the construction.
C9_Witness ==
    /\ Done /\ op = OpString /\ SessionFails
    /\ ret.val = "" /\ ret.err # nil /\ log = <<EvNewSession>>

(***************************************************************************)
(* C10                                                                     *)
(***************************************************************************)
\* GetPostgresDSNSecret ran on a secret whose value is what it returned for a
\* JSON payload it converted.
RanOnOwnOutput ==
    /\ Done /\ op = OpDSN /\ round > 1
    /\ Count(prev.log, EvUnmarshal) = 1
    /\ prev.secret.top = "object"

PrevHost == Want(prev.secret.members, "host")
PrevDBName == Want(prev.secret.members, "dbname")
PrevValues ==
    {Want(prev.secret.members, k) :
         k \in {"host", "dbname", "username", "password", "search_path"}}

\* C10 as stated: the output for a payload with host and dbname both non-empty
\* is returned unchanged with a nil error by a second run; the non-empty
\* output for a payload without host or without dbname is not passed through
\* but submitted to JSON parsing.
C10_AsStated ==
    RanOnOwnOutput
        => IF PrevHost # "" /\ PrevDBName # ""
           THEN ret.val = Text /\ ret.err = nil /\ Count(log, EvUnmarshal) = 0
           ELSE Count(log, EvUnmarshal) = 1

\* C10 amended: the first half as stated; the non-empty output for a payload
\* without host or without dbname is submitted to JSON parsing unless the
\* values it emits contain the missing substrings themselves (host= when host
\* is empty, dbname= when dbname is empty), and then it is passed through too.
C10_FixedPoint ==
    RanOnOwnOutput
        => IF PrevHost # "" /\ PrevDBName # ""
           THEN ret.val = Text /\ ret.err = nil /\ Count(log, EvUnmarshal) = 0
           ELSE LET hostSeen == PrevHost # "" \/ \E v \in PrevValues : Has(v, "host=")
                    dbnameSeen == PrevDBName # "" \/ \E v \in PrevValues : Has(v, "dbname=")
                IN IF hostSeen /\ dbnameSeen
                   THEN ret.val = Text /\ ret.err = nil /\ Count(log, EvUnmarshal) = 0
                   ELSE Count(log, EvUnmarshal) = 1 /\ ret.val = Text /\ ret.err # nil

\* A second run returned the output for a payload with host and dbname unchanged.
C10_Witness ==
    /\ RanOnOwnOutput /\ PrevHost # "" /\ PrevDBName # ""
    /\ ret.val = Text /\ ret.err = nil /\ Count(log, EvUnmarshal) = 0

====
